SPECIFICATION Spec
CONSTANTS
    Paths <- MCPaths
    Under <- MCUnder
    Home = "user"
    Surfaces = {"ssh", "jail", "rules", "hermes"}
    Exception = "yaml"
    Writable = {"tmp"}
    Readable = {"usr"}
    Toolchains = {"tools"}
    Listable = {"user"}
    Scenarios <- MCScenarios
    MaxEdits = 1
    Setups <- MCSetups
INVARIANTS
    InnerSurfacesWithheld
    WorkdirStaysWritable
    ProvingIsUndone
    DomainIsWhatIsClaimed
    MissingTierIsStated
    WrapperChainStarts
CHECK_DEADLOCK FALSE
