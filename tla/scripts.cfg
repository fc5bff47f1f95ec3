SPECIFICATION ScriptsSpec
CONSTANTS
    TaskIds = {"a", "b", "c"}
    Boards <- MCBoards
    Written <- MCWritten
    MaxWrites = 1
    MaxRows = 3
    KernelNames = {"here", "k1", "k2", "k3"}
    ThisKernel = "here"
    Imports <- MCImports
    MinKernels = 3
    Packs <- MCPacks
    Namespace <- MCNamespace
    Builtin <- MCBuiltin
    SystemFiles = {"10-admin"}
    UserFiles = {"00-builtins", "zz-local"}
    Order <- MCOrder
    Docs <- MCDocs
    Sources <- MCSources
    SystemDocs <- MCSystemDocs
    Installers = {i1, i2}
    MaxChanges = 1
INVARIANTS
    BoardIsKept
    NoHalfRun
    VerdictsAreMeasured
    PacksOnlyAdd
PROPERTIES
    GateSeesEveryDrift
CHECK_DEADLOCK FALSE
