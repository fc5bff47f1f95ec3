SPECIFICATION Spec
CONSTANTS
    Configs <- AllConfigs
    LoaderSets <- AnyLoaders
INVARIANTS
    EnforceNeedsAnAnswer
    AskedForIsDelivered
    MissingTiersAreStated
    MappingClaimHolds
CHECK_DEADLOCK FALSE
